---------------------------- MODULE Spec2Model ----------------------------
(***************************************************************************)
(* Request handling of the role-gated question-answering backend           *)
(* (src/app/main.py): module import (startup), the route table, the        *)
(* authenticate dependency, the three GET API handlers, the chat handler   *)
(* with its calls to the external services, and the static/fallback routes.*)
(*                                                                         *)
(* Paths are sequences of segments: "/" is <<>>, "/api/login" is           *)
(* <<"api", "login">>.  A formatted string (an f-string) is the sequence   *)
(* of its parts.                                                           *)
(***************************************************************************)
EXTENDS Integers, Sequences, FiniteSets, TLC

\* ------------------------------------------------------------------ bounds
\* Number of chat requests that may be in flight at once (worker threads).
NumSlots == 2
\* Length of the window of past authentication outcomes that is remembered.
MaxHistory == 2

Slots == 1..NumSlots

VARIABLES
    server,     \* "starting" | "serving" | "aborted": the import of main.py
    staticDir,  \* whether STATIC_DIR exists on disk when main.py is imported
    users_db,   \* the credential table, main.py:33
    slots,      \* chat requests in flight: one record per worker
    last,       \* the exchange completed most recently (request, response, ...)
    authLog     \* outcomes ("ok"/"fail") of the latest authentications, oldest first

vars == <<server, staticDir, users_db, slots, last, authLog>>

\* ---------------------------------------------------------- credential store
UsersDb ==
    ("Tony" :> [password |-> "password123", role |-> "engineering"]) @@
    ("Bruce" :> [password |-> "securepass", role |-> "marketing"]) @@
    ("Sam" :> [password |-> "financepass", role |-> "finance"]) @@
    ("Peter" :> [password |-> "pete123", role |-> "engineering"]) @@
    ("Sid" :> [password |-> "sidpass123", role |-> "marketing"]) @@
    ("Natasha" :> [password |-> "hrpass123", role |-> "hr"])

\* ------------------------------------------------------------ request inputs
NoHeader == [scheme |-> "none", username |-> "", password |-> ""]
Basic(u, p) == [scheme |-> "basic", username |-> u, password |-> p]

NoBody == [kind |-> "none", message |-> ""]
\* A body that is valid JSON for ChatRequest, and one that is not JSON at all.
ChatBody(m) == [kind |-> "chat", message |-> m]
MalformedBody == [kind |-> "malformed", message |-> ""]

LoginPath == <<"api", "login">>
RoleDocsPath == <<"api", "role-docs">>
TestPath == <<"api", "test">>
ChatPath == <<"api", "chat">>
RootPath == <<>>

\* No header, two valid pairs, a stored name with another user's password, an
\* unknown name with a stored password.
Auths ==
    {NoHeader, Basic("Tony", "password123"), Basic("Sam", "financepass"),
     Basic("Tony", "financepass"), Basic("Eve", "password123")}
Messages == {"hello", "bye"}
GetPaths == {LoginPath, RoleDocsPath, TestPath, RootPath,
             <<"about">>, <<"any", "unknown", "path">>, <<"static", "main.js">>}
PostBodies == {ChatBody(m) : m \in Messages} \cup {MalformedBody}

Requests ==
    [method : {"GET"}, path : GetPaths, auth : Auths, body : {NoBody}]
    \cup [method : {"POST"}, path : {ChatPath}, auth : Auths, body : PostBodies]
    \cup [method : {"POST"}, path : {LoginPath}, auth : {NoHeader}, body : {NoBody}]

ChatRequests == {req \in Requests : req.method = "POST" /\ req.path = ChatPath}

\* What a probe of the authenticator presents (the stored names and passwords,
\* case variants, an unknown name, the empty password).
ProbeUsernames == DOMAIN UsersDb \cup {"tony", "Eve", ""}
ProbePasswords == {UsersDb[u].password : u \in DOMAIN UsersDb}
                      \cup {"Password123", "PASSWORD123", ""}
ProbeAuths == {Basic(u, p) : u \in ProbeUsernames, p \in ProbePasswords}
ProbeRequests == [method : {"GET"}, path : {LoginPath}, auth : ProbeAuths, body : {NoBody}]

\* ------------------------------------------------------------------ values
NoUser == [username |-> "", role |-> ""]
NoExc == [status_code |-> 0, detail |-> ""]
NoError == [stage |-> "none", text |-> ""]
ErrorTexts == {"index not found", "out of memory"}

HTTPException(code, detail) == [status_code |-> code, detail |-> detail]

\* Responses.  kind: "json" (a JSON object), "file" (FileResponse), "error"
\* ({"detail": ...} produced from an HTTPException or by the framework).
JSONResponse(obj) == [status |-> 200, kind |-> "json", body |-> obj]
ErrorResponse(exc) ==
    [status |-> exc.status_code, kind |-> "error", body |-> [detail |-> exc.detail]]
NoResponse == [status |-> 0, kind |-> "none", body |-> [detail |-> ""]]


\* An exchange: a request with everything its handling produced.  user is the
\* identity the authenticate dependency returned, calls the calls made to the
\* services (loader, vector store, generation chain) in order, logged the lines
\* printed, raised the error a service raised during the chat handler's try block.
Exchange(req, resp, user, calls, logged, raised) ==
    [req |-> req, resp |-> resp, user |-> user, calls |-> calls,
     logged |-> logged, raised |-> raised]
NoRequest == [method |-> "NONE", path |-> <<>>, auth |-> NoHeader, body |-> NoBody]
NoExchange == Exchange(NoRequest, NoResponse, NoUser, <<>>, <<>>, NoError)

Call(fn, arg) == [fn |-> fn, arg |-> arg]

\* ----------------------------------------------------------------- services
\* app.services.loader.get_documents_by_role: the documents a role may see.
Roles == {"engineering", "marketing", "finance", "hr"}
DocumentsOf(role) == IF role \in Roles THEN << <<"document of", role>> >> ELSE <<>>
get_documents_by_role(role) == DocumentsOf(role)

\* app.services.vector_store.load_vector_store: a retriever over one role's partition.
NoRetriever == [scope |-> ""]
load_vector_store(role) == [scope |-> role]

\* RetrievalQA.from_chain_type(llm=llm, retriever=retriever) and qa.run(query):
\* the answer is an opaque text determined by the model, the retriever and the query.
NoChain == [llm |-> "", retriever |-> NoRetriever]
from_chain_type(llm, retriever) == [llm |-> llm, retriever |-> retriever]
qa_run(qa, query) == <<"answer", qa.llm, qa.retriever.scope, query>>
llm == "google/flan-t5-base"

\* What a call to a service may do: return, or raise an error with some text.
Outcomes == {"ok"} \cup ErrorTexts

\* ------------------------------------------------------------ authentication
\* security = HTTPBasic(): without a Basic Authorization header the scheme itself
\* raises 401 "Not authenticated" and authenticate is never called.
HasCredentials(auth) == auth.scheme = "basic"
NotAuthenticated == HTTPException(401, "Not authenticated")

\* authenticate with the password comparison left out.
authenticate_any_password(credentials) ==
    IF credentials.username \notin DOMAIN users_db
    THEN [ok |-> FALSE, user |-> NoUser, exc |-> HTTPException(401, "Invalid credentials")]
    ELSE [ok |-> TRUE,
          user |-> [username |-> credentials.username,
                    role |-> users_db[credentials.username].role],
          exc |-> NoExc]

\* authenticate telling an unknown user from a wrong password.
authenticate_user_not_found(credentials) ==
    IF credentials.username \notin DOMAIN users_db
    THEN [ok |-> FALSE, user |-> NoUser, exc |-> HTTPException(404, "User not found")]
    ELSE IF users_db[credentials.username].password # credentials.password
    THEN [ok |-> FALSE, user |-> NoUser, exc |-> HTTPException(401, "Invalid credentials")]
    ELSE [ok |-> TRUE,
          user |-> [username |-> credentials.username,
                    role |-> users_db[credentials.username].role],
          exc |-> NoExc]

\* authenticate with a session: once somebody has logged in, a stored username
\* is accepted without its password.
authenticate_session(credentials) ==
    LET known == credentials.username \in DOMAIN users_db
        session == authLog # <<>> /\ authLog[Len(authLog)] = "ok"
    IN  IF known /\ (session \/ users_db[credentials.username].password = credentials.password)
        THEN [ok |-> TRUE,
              user |-> [username |-> credentials.username,
                        role |-> users_db[credentials.username].role],
              exc |-> NoExc]
        ELSE [ok |-> FALSE, user |-> NoUser,
              exc |-> HTTPException(401, "Invalid credentials")]

\* authenticate(credentials), main.py:45-49
authenticate(credentials) ==
    LET known == credentials.username \in DOMAIN users_db
        user == IF known THEN users_db[credentials.username]
                ELSE [password |-> "", role |-> ""]
    IN  IF ~known \/ user.password # credentials.password
        THEN [ok |-> FALSE, user |-> NoUser,
              exc |-> HTTPException(401, "Invalid credentials")]
        ELSE [ok |-> TRUE,
              user |-> [username |-> credentials.username, role |-> user.role],
              exc |-> NoExc]

\* The dependency with HTTPBasic(auto_error=False): a request without a header
\* goes on as an anonymous user.
Authn_anonymous(req) ==
    IF HasCredentials(req.auth)
    THEN authenticate([username |-> req.auth.username, password |-> req.auth.password])
    ELSE [ok |-> TRUE, user |-> [username |-> "anonymous", role |-> "engineering"],
          exc |-> NoExc]

\* user = Depends(authenticate), with credentials = Depends(security)
Authn(req) ==
    IF HasCredentials(req.auth)
    THEN authenticate([username |-> req.auth.username, password |-> req.auth.password])
    ELSE [ok |-> FALSE, user |-> NoUser, exc |-> NotAuthenticated]

\* ------------------------------------------------------------------- routes
\* The route table in registration order.  An API route answers only its own
\* method; a mount answers every path under its prefix; the catch-all GET
\* route "/{full_path:path}" matches every path.
Route(kind, method, path, endpoint) ==
    [kind |-> kind, method |-> method, path |-> path, endpoint |-> endpoint]
\* The table with read_root registered ahead of the frontend routes.
Routes_read_root_first ==
    << Route("exact", "GET", LoginPath, "login"),
       Route("exact", "GET", RoleDocsPath, "list_docs_by_role"),
       Route("exact", "GET", TestPath, "test"),
       Route("exact", "POST", ChatPath, "chat_endpoint"),
       Route("exact", "GET", RootPath, "read_root"),
       Route("mount", "*", <<"static">>, "static"),
       Route("exact", "GET", RootPath, "serve_react_index"),
       Route("catchall", "GET", <<>>, "serve_react_router") >>

Routes ==
    << Route("exact", "GET", LoginPath, "login"),
       Route("exact", "GET", RoleDocsPath, "list_docs_by_role"),
       Route("exact", "GET", TestPath, "test"),
       Route("exact", "POST", ChatPath, "chat_endpoint"),
       Route("mount", "*", <<"static">>, "static"),
       Route("exact", "GET", RootPath, "serve_react_index"),
       Route("catchall", "GET", <<>>, "serve_react_router"),
       Route("exact", "GET", RootPath, "read_root") >>

PathMatches(route, path) ==
    CASE route.kind = "exact" -> path = route.path
      [] route.kind = "mount" ->
            /\ Len(path) > Len(route.path)
            /\ SubSeq(path, 1, Len(route.path)) = route.path
      [] OTHER -> TRUE

Match(route, req) ==
    IF ~PathMatches(route, req.path) THEN "NONE"
    ELSE IF route.kind = "mount" \/ route.method = req.method THEN "FULL"
    ELSE "PARTIAL"

MinOf(S) == CHOOSE i \in S : \A j \in S : i <= j

\* The router: the first route that matches path and method; failing that, the
\* first route that matches the path alone answers 405; failing that, 404.
Resolve(req) ==
    LET full == {i \in DOMAIN Routes : Match(Routes[i], req) = "FULL"}
        partial == {i \in DOMAIN Routes : Match(Routes[i], req) = "PARTIAL"}
    IN  IF full # {} THEN Routes[MinOf(full)].endpoint
        ELSE IF partial # {} THEN "method_not_allowed"
        ELSE "not_found"

\* The router's answer for every request of the model.
Dispatch == [req \in Requests \cup ProbeRequests |-> Resolve(req)]

ProtectedEndpoints == {"login", "list_docs_by_role", "test", "chat_endpoint"}


\* ----------------------------------------------------------------- handlers
\* Each handler yields the response and the service calls it made.
Handled(resp, calls) == [resp |-> resp, calls |-> calls]

\* A handler that passes one fixed role whoever the user is.
RoleArg_fixed(user) == "engineering"

\* The role a handler passes to the services: user["role"].
RoleArg(user) == user.role

\* login, main.py:52-54
login(user) ==
    Handled(JSONResponse([message |-> <<"Welcome ", user.username, "!">>,
                          role |-> user.role]), <<>>)

\* list_docs_by_role, main.py:56-58
list_docs_by_role(user) ==
    Handled(JSONResponse([documents |-> get_documents_by_role(RoleArg(user))]),
            <<Call("get_documents_by_role", RoleArg(user))>>)

\* test, main.py:60-62
test(user) ==
    Handled(JSONResponse([message |-> <<"Hello ", user.username, "! You can now chat.">>,
                          role |-> user.role]), <<>>)

\* serve_react_index and serve_react_router, main.py:93-99: the same file.  A
\* frontend build holds index.html beside its static directory.
IndexDocument == [file |-> <<"frontend", "build", "index.html">>]
FileResponse(doc) == [status |-> 200, kind |-> "file", body |-> doc]
serve_react_index == Handled(FileResponse(IndexDocument), <<>>)
serve_react_router(full_path) == Handled(FileResponse(IndexDocument), <<>>)

\* read_root, main.py:100-102
read_root == Handled(JSONResponse([message |-> <<"Backend is running!">>]), <<>>)

\* app.mount("/static", StaticFiles(directory=STATIC_DIR)), main.py:91
StaticAssets == {<<"main.js">>}
static(req) ==
    LET rest == SubSeq(req.path, 2, Len(req.path))
    IN  IF req.method # "GET"
        THEN Handled(ErrorResponse(HTTPException(405, "Method Not Allowed")), <<>>)
        ELSE IF rest \in StaticAssets
        THEN Handled(FileResponse([file |-> <<"frontend", "build", "static">> \o rest]), <<>>)
        ELSE Handled(ErrorResponse(HTTPException(404, "Not Found")), <<>>)

\* The error path answering with the text of the error.
ChatError_leak(e) == ErrorResponse(HTTPException(500, e.text))

\* The error path of chat_endpoint, main.py:80-82: every Exception raised in the
\* try block becomes the same HTTPException.
ChatError(e) == ErrorResponse(HTTPException(500, "Chat failed. Please try again."))

\* The success path reading the user from a module-level variable that the
\* latest request to start has overwritten.
ChatResult_shared(s, result) ==
    LET others == {t \in Slots \ {s} : slots[t].pc # "idle"}
        u == IF others = {} THEN slots[s].user
             ELSE slots[CHOOSE t \in others : TRUE].user
    IN  JSONResponse([user |-> u.username, role |-> u.role,
                      query |-> slots[s].req.body.message, response |-> result])

\* The success path of chat_endpoint, main.py:74-79, for the request in slot s.
ChatResult(s, result) ==
    JSONResponse([user |-> slots[s].user.username,
                  role |-> slots[s].user.role,
                  query |-> slots[s].req.body.message,
                  response |-> result])

\* --------------------------------------------------------------- dispatching
\* The body of a route with a body parameter is parsed before its dependencies
\* are solved: a body that is not JSON is answered 422 without authentication.
BodyRejected(endpoint, req) ==
    endpoint = "chat_endpoint" /\ req.body.kind = "malformed"

\* Whether the authentication dependency runs for the request, and its outcome.
AuthOutcome(req) ==
    LET endpoint == Dispatch[req]
    IN  IF endpoint \notin ProtectedEndpoints \/ BodyRejected(endpoint, req) THEN "none"
        ELSE IF Authn(req).ok THEN "ok" ELSE "fail"

\* The request reaches the body of chat_endpoint.
EntersChat(req) == Dispatch[req] = "chat_endpoint" /\ AuthOutcome(req) = "ok"

\* Everything but the body of chat_endpoint, as one exchange.
Complete(req) ==
    LET endpoint == Dispatch[req]
        a == Authn(req)
        h == CASE endpoint = "login" -> login(a.user)
               [] endpoint = "list_docs_by_role" -> list_docs_by_role(a.user)
               [] endpoint = "test" -> test(a.user)
               [] endpoint = "static" -> static(req)
               [] endpoint = "serve_react_index" -> serve_react_index
               [] endpoint = "serve_react_router" -> serve_react_router(req.path)
               [] endpoint = "read_root" -> read_root
               [] endpoint = "method_not_allowed" ->
                     Handled(ErrorResponse(HTTPException(405, "Method Not Allowed")), <<>>)
               [] OTHER -> Handled(ErrorResponse(HTTPException(404, "Not Found")), <<>>)
    IN  IF endpoint \notin ProtectedEndpoints
        THEN Exchange(req, h.resp, NoUser, h.calls, <<>>, NoError)
        ELSE IF BodyRejected(endpoint, req)
        THEN Exchange(req, ErrorResponse(HTTPException(422, "JSON decode error")),
                      NoUser, <<>>, <<>>, NoError)
        ELSE IF ~a.ok
        THEN Exchange(req, ErrorResponse(a.exc), NoUser, <<>>, <<>>, NoError)
        ELSE Exchange(req, h.resp, a.user, h.calls, <<>>, NoError)

\* The window of authentication outcomes after one more.
Logged(outcome) ==
    IF outcome = "none" THEN authLog
    ELSE IF Len(authLog) < MaxHistory THEN Append(authLog, outcome)
    ELSE Append(Tail(authLog), outcome)

\* ------------------------------------------------------------------ actions
IdleSlot ==
    [pc |-> "idle", req |-> NoRequest, user |-> NoUser, retriever |-> NoRetriever,
     qa |-> NoChain, calls |-> <<>>, logged |-> <<>>]

\* The import without the check.
StartupCheck_none == TRUE

\* The check of main.py:88: the static directory must exist.
StartupCheck == staticDir

\* Importing main.py, lines 17-102: the routes are registered and the check of
\* line 88 raises RuntimeError, which ends the process, or lets serving begin.
Startup ==
    /\ server = "starting"
    /\ server' = IF StartupCheck THEN "serving" ELSE "aborted"
    /\ UNCHANGED <<staticDir, users_db, slots, last, authLog>>

\* A request that does not reach the body of chat_endpoint, handled whole.
HandleRequest(req) ==
    /\ server = "serving"
    /\ ~EntersChat(req)
    /\ last' = Complete(req)
    /\ authLog' = Logged(AuthOutcome(req))
    /\ UNCHANGED <<server, staticDir, users_db, slots>>

\* chat_endpoint up to the try block, main.py:68-69: the request is parsed,
\* authenticated and logged by a free worker.
ChatStart(s, req) ==
    /\ server = "serving"
    /\ slots[s].pc = "idle"
    /\ EntersChat(req)
    /\ LET user == Authn(req).user
       IN  slots' = [slots EXCEPT ![s] =
                [IdleSlot EXCEPT
                    !.pc = "load", !.req = req, !.user = user,
                    !.logged = << <<"Query from ", user.username, " (", user.role,
                                   "): ", req.body.message>> >>]]
    /\ authLog' = Logged("ok")
    /\ UNCHANGED <<server, staticDir, users_db, last>>

\* An except clause that tries the vector store a second time before giving up.
ChatFail_retry(s, calls, e) ==
    IF e.stage = "load" /\ Len(calls) < 2
    THEN /\ slots' = [slots EXCEPT ![s].calls = calls]
         /\ UNCHANGED last
    ELSE /\ last' = Exchange(slots[s].req,
                             ErrorResponse(HTTPException(500, "Chat failed. Please try again.")),
                             slots[s].user, calls,
                             Append(slots[s].logged, <<"Error during chat: ", e.text>>), e)
         /\ slots' = [slots EXCEPT ![s] = IdleSlot]

\* The except clause, main.py:80-82: log the error, answer, free the worker.
\* print is taken to succeed; the errors are those except Exception catches.
ChatFail(s, calls, e) ==
    /\ last' = Exchange(slots[s].req, ChatError(e), slots[s].user, calls,
                        Append(slots[s].logged, <<"Error during chat: ", e.text>>), e)
    /\ slots' = [slots EXCEPT ![s] = IdleSlot]

\* retriever = load_vector_store(role=user["role"]), main.py:71
ChatLoad(s) ==
    /\ slots[s].pc = "load"
    /\ LET role == RoleArg(slots[s].user)
           calls == Append(slots[s].calls, Call("load_vector_store", role))
       IN  \E o \in Outcomes :
              IF o = "ok"
              THEN /\ slots' = [slots EXCEPT ![s].pc = "construct",
                                             ![s].retriever = load_vector_store(role),
                                             ![s].calls = calls]
                   /\ UNCHANGED last
              ELSE ChatFail(s, calls, [stage |-> "load", text |-> o])
    /\ UNCHANGED <<server, staticDir, users_db, authLog>>

\* qa = RetrievalQA.from_chain_type(llm=llm, retriever=retriever), main.py:72
ChatConstruct(s) ==
    /\ slots[s].pc = "construct"
    /\ \E o \in Outcomes :
          IF o = "ok"
          THEN /\ slots' = [slots EXCEPT ![s].pc = "run",
                                         ![s].qa = from_chain_type(llm, slots[s].retriever)]
               /\ UNCHANGED last
          ELSE ChatFail(s, slots[s].calls, [stage |-> "construct", text |-> o])
    /\ UNCHANGED <<server, staticDir, users_db, authLog>>

\* result = qa.run(request.message) and the return, main.py:73-79
ChatRun(s) ==
    /\ slots[s].pc = "run"
    /\ LET query == slots[s].req.body.message
           calls == Append(slots[s].calls, Call("qa.run", query))
       IN  \E o \in Outcomes :
              IF o = "ok"
              THEN /\ last' = Exchange(slots[s].req, ChatResult(s, qa_run(slots[s].qa, query)),
                                       slots[s].user, calls, slots[s].logged, NoError)
                   /\ slots' = [slots EXCEPT ![s] = IdleSlot]
              ELSE ChatFail(s, calls, [stage |-> "run", text |-> o])
    /\ UNCHANGED <<server, staticDir, users_db, authLog>>

Init ==
    /\ server = "starting"
    /\ staticDir \in BOOLEAN
    /\ users_db = UsersDb
    /\ slots = [s \in Slots |-> IdleSlot]
    /\ last = NoExchange
    /\ authLog = <<>>

\* The server from its start, every request of the model, chats handled by one
\* worker (other requests are answered while a chat is in flight).
Worker == MinOf(Slots)

Next ==
    \/ Startup
    \/ \E req \in Requests : HandleRequest(req)
    \/ \E req \in Requests : ChatStart(Worker, req)
    \/ ChatLoad(Worker)
    \/ ChatConstruct(Worker)
    \/ ChatRun(Worker)

Spec == Init /\ [][Next]_vars

Serving ==
    /\ server = "serving"
    /\ staticDir = TRUE
    /\ users_db = UsersDb
    /\ slots = [s \in Slots |-> IdleSlot]
    /\ last = NoExchange
    /\ authLog = <<>>

\* The serving server with every worker taking chat requests concurrently.
NextChat ==
    \/ \E s \in Slots, req \in ChatRequests : ChatStart(s, req)
    \/ \E s \in Slots : ChatLoad(s)
    \/ \E s \in Slots : ChatConstruct(s)
    \/ \E s \in Slots : ChatRun(s)

SpecChat == Serving /\ [][NextChat]_vars

\* The authenticator probed through GET /api/login with a wide set of credentials.
Probe(req) == HandleRequest(req)

NextAuth == \E req \in ProbeRequests : Probe(req)

SpecAuth == Serving /\ [][NextAuth]_vars


\* ------------------------------------------------------------------- claims
\* Vocabulary of the properties, stated on the request itself and on the table
\* of main.py:33-40.
ProtectedRoute(req) ==
    \/ req.method = "GET" /\ req.path \in {LoginPath, RoleDocsPath, TestPath}
    \/ req.method = "POST" /\ req.path = ChatPath

ValidCredentials(auth) ==
    /\ auth.scheme = "basic"
    /\ auth.username \in DOMAIN UsersDb
    /\ UsersDb[auth.username].password = auth.password

UnknownUser(auth) == auth.scheme = "basic" /\ auth.username \notin DOMAIN UsersDb
WrongPassword(auth) ==
    /\ auth.scheme = "basic"
    /\ auth.username \in DOMAIN UsersDb
    /\ UsersDb[auth.username].password # auth.password

Answered == last.req # NoRequest
InFlight == {s \in Slots : slots[s].pc # "idle"}
InvalidCredentials == ErrorResponse(HTTPException(401, "Invalid credentials"))
ChatFailed == ErrorResponse(HTTPException(500, "Chat failed. Please try again."))
ChatAnswered == Answered /\ last.req.method = "POST" /\ last.req.path = ChatPath

\* No route logic ran for the exchange: no service was called, nothing was
\* printed, no identity was produced.
NoRouteLogic(x) == x.calls = <<>> /\ x.logged = <<>> /\ x.user = NoUser

\* C1 (as stated): every request to a protected route whose credentials fail
\* authentication, a request without an Authorization header included, is
\* answered 401 "Invalid credentials", and no route logic runs for it.
C1_Original ==
    /\ (Answered /\ ProtectedRoute(last.req) /\ ~ValidCredentials(last.req.auth))
          => last.resp = InvalidCredentials /\ NoRouteLogic(last)
    /\ \A s \in InFlight : ValidCredentials(slots[s].req.auth)

\* C1 (amended): for every request to a protected route whose credentials fail
\* authentication no route logic runs; the answer is 401 "Invalid credentials"
\* when authenticate rejects the Basic credentials presented, 401 "Not
\* authenticated" when there is no Authorization header, and 422 when the body
\* of POST /api/chat is not JSON (the body is parsed before authentication).
C1_RejectedBeforeRouteLogic ==
    /\ (Answered /\ ProtectedRoute(last.req) /\ ~ValidCredentials(last.req.auth))
          => /\ NoRouteLogic(last)
             /\ last.resp.kind = "error"
             /\ IF last.req.body.kind = "malformed" THEN last.resp.status = 422
                ELSE IF last.req.auth = NoHeader
                THEN last.resp = ErrorResponse(HTTPException(401, "Not authenticated"))
                ELSE last.resp = InvalidCredentials
    /\ \A s \in InFlight : ValidCredentials(slots[s].req.auth)

C1_Witness ==
    /\ Answered /\ last.req.method = "GET" /\ last.req.path = RoleDocsPath
    /\ last.req.auth = NoHeader
    /\ last.resp.status = 401

\* C2: authenticate succeeds exactly when the username is a key of the table
\* and the password equals the stored one; it then returns the username with
\* its stored role (Tony/password123 gives role engineering); otherwise it
\* fails with 401 "Invalid credentials".
C2_AuthenticateIff ==
    (Answered /\ last.req.path = LoginPath /\ last.req.auth.scheme = "basic") =>
        LET u == last.req.auth.username
            pw == last.req.auth.password
            match == u \in DOMAIN UsersDb /\ UsersDb[u].password = pw
        IN  /\ match => /\ last.user = [username |-> u, role |-> UsersDb[u].role]
                        /\ last.resp.status = 200
                        /\ last.resp.body.role = UsersDb[u].role
            /\ ~match => last.user = NoUser /\ last.resp = InvalidCredentials
            /\ (u = "Tony" /\ pw = "password123")
                  => last.user = [username |-> "Tony", role |-> "engineering"]

C2_Witness ==
    /\ Answered /\ last.req.auth = Basic("Tony", "password123")
    /\ last.user = [username |-> "Tony", role |-> "engineering"]
    /\ authLog # <<>> /\ authLog[1] = "fail"

\* C3: on one protected route, the answer to a request with an unknown username
\* and the answer to a request with a stored username and a wrong password are
\* the same (status and message): the answer given is the one the other kind of
\* failure gets.
C3_FailuresIndistinguishable ==
    (Answered /\ ProtectedRoute(last.req) /\ last.req.body.kind # "malformed"
        /\ (UnknownUser(last.req.auth) \/ WrongPassword(last.req.auth)))
    => \A other \in Auths :
          (UnknownUser(other) \/ WrongPassword(other)) =>
              LET twin == Complete([last.req EXCEPT !.auth = other])
              IN  /\ twin.resp.status = last.resp.status
                  /\ twin.resp.body = last.resp.body
                  /\ last.resp.status = 401

C3_Witness ==
    /\ Answered /\ last.req.path = TestPath
    /\ WrongPassword(last.req.auth)
    /\ \E other \in Auths : UnknownUser(other)
    /\ last.resp.status = 401

\* C4: the role passed to get_documents_by_role (GET /api/role-docs) and to
\* load_vector_store (POST /api/chat) is the role the table gives the
\* authenticated username, and the documents or the answer returned are those
\* of that role.
RoleOf(req) == UsersDb[req.auth.username].role
ServiceCalls(calls) ==
    {i \in DOMAIN calls : calls[i].fn \in {"get_documents_by_role", "load_vector_store"}}

C4_RoleScoping ==
    /\ Answered =>
          /\ \A i \in ServiceCalls(last.calls) :
                ValidCredentials(last.req.auth) /\ last.calls[i].arg = RoleOf(last.req)
          /\ (last.req.path = RoleDocsPath /\ last.resp.status = 200) =>
                /\ last.calls = <<Call("get_documents_by_role", RoleOf(last.req))>>
                /\ last.resp.body.documents = DocumentsOf(RoleOf(last.req))
          /\ (ChatAnswered /\ last.resp.status = 200) =>
                /\ last.resp.body.role = RoleOf(last.req)
                /\ last.resp.body.response =
                      qa_run(from_chain_type(llm, load_vector_store(RoleOf(last.req))),
                             last.req.body.message)
    /\ \A s \in InFlight :
          /\ \A i \in ServiceCalls(slots[s].calls) :
                slots[s].calls[i].arg = RoleOf(slots[s].req)
          /\ slots[s].pc \in {"construct", "run"} =>
                slots[s].retriever = load_vector_store(RoleOf(slots[s].req))

C4_Witness ==
    /\ Answered /\ last.req.path = RoleDocsPath
    /\ last.req.auth = Basic("Sam", "financepass")
    /\ last.resp.body.documents = DocumentsOf("finance")
    /\ last.resp.body.documents # DocumentsOf("engineering")

\* C5: when load_vector_store, from_chain_type or qa.run raises an error in an
\* authenticated, well-formed POST /api/chat, the answer is 500 with detail
\* "Chat failed. Please try again.": not 200, not an uncaught error, and without
\* the text of the error (which is printed on the server only).
C5_ChatFailureIsGeneric500 ==
    (ChatAnswered /\ last.raised # NoError) =>
        /\ ValidCredentials(last.req.auth) /\ last.req.body.kind = "chat"
        /\ last.resp = ChatFailed
        /\ last.resp.body.detail # last.raised.text
        /\ \E i \in DOMAIN last.logged :
              last.logged[i] = <<"Error during chat: ", last.raised.text>>

C5_Witness ==
    /\ ChatAnswered /\ last.raised.stage = "run"
    /\ last.raised.text \in ErrorTexts
    /\ last.resp.status = 500

\* C6: the table never changes, and the answer of a protected route is decided
\* by the request's own credentials alone, whatever was answered before: failing
\* credentials are rejected with 401 also right after a successful
\* authentication, valid ones are accepted also after failures.
C6_NoSessionState ==
    /\ users_db = UsersDb
    /\ (Answered /\ ProtectedRoute(last.req) /\ last.req.body.kind # "malformed") =>
          /\ ~ValidCredentials(last.req.auth) =>
                last.resp.status = 401 /\ NoRouteLogic(last)
          /\ ValidCredentials(last.req.auth) =>
                /\ last.resp.status \in {200, 500}
                /\ last.user = [username |-> last.req.auth.username,
                                role |-> RoleOf(last.req)]
    /\ \A s \in InFlight : ValidCredentials(slots[s].req.auth)

C6_Witness ==
    /\ Answered /\ ProtectedRoute(last.req) /\ WrongPassword(last.req.auth)
    /\ last.resp.status = 401
    /\ Len(authLog) >= 2
    /\ authLog[Len(authLog) - 1] = "ok"
    /\ authLog[Len(authLog)] = "fail"

\* C7: GET / and GET of any path outside /api/ and /static/ are answered with
\* the same entry document, whatever the credentials; GET / is served by
\* serve_react_index, never by read_root's JSON message.
FrontendPath(path) == path = <<>> \/ path[1] \notin {"api", "static"}

C8_ChatsIndependent ==
    /\ (ChatAnswered /\ last.resp.status = 200) =>
          /\ last.resp.body.user = last.req.auth.username
          /\ last.resp.body.role = RoleOf(last.req)
          /\ last.resp.body.query = last.req.body.message
          /\ last.resp.body.response =
                qa_run(from_chain_type(llm, load_vector_store(RoleOf(last.req))),
                       last.req.body.message)
    /\ \A s \in InFlight :
          /\ slots[s].user = [username |-> slots[s].req.auth.username,
                              role |-> RoleOf(slots[s].req)]
          /\ slots[s].pc = "run" =>
                slots[s].qa = from_chain_type(llm, load_vector_store(RoleOf(slots[s].req)))

C8_Witness ==
    /\ ChatAnswered /\ last.resp.status = 200
    /\ last.req.auth.username = "Tony" /\ last.req.body.message = "hello"
    /\ \E s \in Slots :
          /\ slots[s].pc = "run"
          /\ slots[s].req.auth.username = "Sam"
          /\ slots[s].req.body.message = "bye"

\* C9: when the static directory is missing at startup the import fails, and no
\* request is ever handled.
C9_NoServingWithoutBuild ==
    ~staticDir => /\ server # "serving"
                  /\ ~Answered
                  /\ InFlight = {}

C9_Witness == ~staticDir /\ server = "aborted"

\* C10: a chat request calls load_vector_store at most once and then qa.run at
\* most once, in that order; when load_vector_store (or the construction of the
\* chain) fails qa.run is not called; a failure is answered at once with the
\* 500 response.
LoadCall(req) == Call("load_vector_store", RoleOf(req))
RunCall(req) == Call("qa.run", req.body.message)

C10_NoRetries ==
    /\ ChatAnswered =>
          /\ last.raised.stage \in {"load", "construct"} => last.calls = <<LoadCall(last.req)>>
          /\ last.raised.stage = "run" => last.calls = <<LoadCall(last.req), RunCall(last.req)>>
          /\ last.raised # NoError => last.resp.status = 500
          /\ last.resp.status = 200 => last.calls = <<LoadCall(last.req), RunCall(last.req)>>
          /\ last.resp.status \notin {200, 500} => last.calls = <<>>
    /\ \A s \in InFlight :
          /\ slots[s].pc = "load" => slots[s].calls = <<>>
          /\ slots[s].pc \in {"construct", "run"} => slots[s].calls = <<LoadCall(slots[s].req)>>

C10_Witness ==
    /\ ChatAnswered /\ last.raised.stage = "load"
    /\ last.calls = <<LoadCall(last.req)>>
    /\ last.resp.status = 500

=============================================================================
